---- MODULE Spec2Model ----
(***************************************************************************)
(* The six line codes of digital_to_digital.py (NRZ-L, NRZ-I, Bipolar-AMI, *)
(* Pseudoternary, Manchester, Differential Manchester) as a state machine: *)
(* a caller invokes encode, decode or has_violations on a codec, the       *)
(* method's for-loop runs one iteration per step, and the call ends by     *)
(* returning a value or by raising IndexError.                             *)
(*                                                                         *)
(* Python indexes from 0; the loop index i is kept 0-based and the element *)
(* signal[i] of the source is arg[i + 1] here.                             *)
(***************************************************************************)
EXTENDS Integers, Sequences, FiniteSets, TLC

(* ---- bounds of the inputs a caller supplies ---- *)
\* longest well-formed bit sequence (over {0,1}) handed to encode
MaxBits == 5
\* longest well-formed level sequence (over {HIGH,LOW,NO_LINE}) handed to
\* decode / has_violations
MaxLevels == 3
\* longest input that may hold out-of-alphabet values
MaxBad == 2

(* ---- the level alphabet (module constants) ---- *)
LOW == -1
HIGH == 1
NO_LINE == 0
\* Python's None, the initial value of last_nonzero; equal to no level
None == 9

Bits == {0, 1}
Levels == {HIGH, LOW, NO_LINE}
\* the alphabets with one out-of-alphabet value added: the methods take any
\* list[int] and do not validate it
AnyBits == Bits \cup {2}
AnyLevels == Levels \cup {2}

NRZL == "NonReturnToZeroLevel"
NRZI == "NonReturnToZeroInverted"
AMI == "BipolarAMI"
PT == "Pseudoternary"
MAN == "Manchester"
DM == "DifferentialManchester"

Schemes == {NRZL, NRZI, AMI, PT, MAN, DM}
\* the classes that define has_violations
Bipolar == {AMI, PT}
\* the classes whose encode emits two levels per bit
TwoInterval == {MAN, DM}
\* the decoders that consume one level per iteration (for level in signal)
OneLevelDecoders == {NRZL, NRZI, AMI, PT}

SeqsUpTo(S, n) == UNION {[1..k -> S] : k \in 0..n}

\* what a caller may pass as data / as signal
DataInputs == SeqsUpTo(Bits, MaxBits) \cup SeqsUpTo(AnyBits, MaxBad)
SignalInputs == SeqsUpTo(Levels, MaxLevels) \cup SeqsUpTo(AnyLevels, MaxBad)

IsBitSeq(s) == \A k \in 1..Len(s) : s[k] \in Bits
IsLevelSeq(s) == \A k \in 1..Len(s) : s[k] \in Levels

(* ======================= per-iteration rules ========================== *)

\* faulty variant of Toggle: the comparison is made against the wrong level, so the
\* level never changes
ToggleStuck(last) == IF last = HIGH THEN HIGH ELSE LOW

\* HIGH if last_level == LOW else LOW
Toggle(last) == IF last = LOW THEN HIGH ELSE LOW

\* NRZ-L encode: the level appended for one bit
NRZLLevel(bit) == IF bit = 1 THEN LOW ELSE HIGH

\* NRZ-L decode: the bit appended for one level
NRZLBit(level) == IF level = LOW THEN 1 ELSE 0

\* faulty variant of NRZINext: the toggle is made on bit 0 instead of bit 1
NRZINextOnZero(bit, last) == IF bit = 0 THEN Toggle(last) ELSE last

\* NRZ-I encode: last_level after looking at one bit (it is then appended)
NRZINext(bit, last) == IF bit = 1 THEN Toggle(last) ELSE last

\* faulty variant of NRZIBit: the two branches are swapped
NRZIBitSwapped(level, prev) == IF level # prev THEN 0 ELSE 1

\* NRZ-I decode: the bit appended for one level, given previous_level
NRZIBit(level, prev) == IF level # prev THEN 1 ELSE 0

\* Bipolar-AMI encode: does this bit take the pulse branch?
AMIPulse(bit) == bit = 1

\* faulty variant of AMIBit: the level itself is appended, polarity not discarded
AMIBitRaw(level) == level

\* Bipolar-AMI decode
AMIBit(level) == IF level = NO_LINE THEN 0 ELSE 1

\* faulty variant of PTPulse: the test is written as the negation of AMI's
PTPulseNotOne(bit) == bit # 1

\* Pseudoternary encode: does this bit take the pulse branch?
PTPulse(bit) == bit = 0

\* faulty variant of PTBit: AMI's mapping copied without swapping 0 and 1
PTBitCopied(level) == IF level = NO_LINE THEN 0 ELSE 1

\* Pseudoternary decode
PTBit(level) == IF level = NO_LINE THEN 1 ELSE 0

\* faulty variant of ManchesterPair: only the first half is appended
ManchesterPairHalf(bit) == IF bit = 1 THEN <<LOW>> ELSE <<HIGH>>

\* Manchester encode: the pair result is extended with
ManchesterPair(bit) == IF bit = 1 THEN <<LOW, HIGH>> ELSE <<HIGH, LOW>>

\* Python's signal[i:i+2]: the slice is clipped at the end of the list
Slice(signal, i) == SubSeq(signal, i + 1, IF i + 2 <= Len(signal) THEN i + 2 ELSE Len(signal))

\* Manchester decode: the bit appended for one slice
ManchesterBit(pair) == IF pair = <<LOW, HIGH>> THEN 1 ELSE 0

\* faulty variant of DMFirstHalf: the boundary toggle is made on bit 1
DMFirstHalfOnOne(bit, last) == IF bit = 1 THEN Toggle(last) ELSE last

\* Differential Manchester encode: last_level when the first half is appended
DMFirstHalf(bit, last) == IF bit = 0 THEN Toggle(last) ELSE last

\* Differential Manchester decode: the bit for a first half and previous_level
DMBit(first, prev) == IF first # prev THEN 0 ELSE 1

\* faulty variant of IsPulse: NO_LINE is not skipped
IsPulseAlways(level) == TRUE

\* BipolarAMI.has_violations: the levels that are not skipped by `continue`
IsPulse(level) == level # NO_LINE

\* BipolarAMI.has_violations: the test that returns True
SameAsLast(level, last) == last # None /\ level = last

\* Pseudoternary.has_violations is a method of its own with the same two
\* tests: the levels that are not skipped by `continue`
PTIsPulse(level) == level # NO_LINE

\* Pseudoternary.has_violations: the test that returns True
PTSameAsLast(level, last) == last # None /\ level = last

\* the two tests of the has_violations of class s
ScanIsPulse(s, level) == IF s = PT THEN PTIsPulse(level) ELSE IsPulse(level)
ScanSameAsLast(s, level, last) ==
  IF s = PT THEN PTSameAsLast(level, last) ELSE SameAsLast(level, last)

\* One iteration of encode's loop for scheme s: the levels appended to result
\* and last_level afterwards (NRZ-L and Manchester have no last_level and
\* leave it as it is).
EncodeStep(s, bit, last) ==
  CASE s = NRZL -> [emit |-> <<NRZLLevel(bit)>>, last |-> last]
    [] s = NRZI -> [emit |-> <<NRZINext(bit, last)>>, last |-> NRZINext(bit, last)]
    [] s = AMI  -> IF AMIPulse(bit)
                     THEN [emit |-> <<Toggle(last)>>, last |-> Toggle(last)]
                     ELSE [emit |-> <<NO_LINE>>, last |-> last]
    [] s = PT   -> IF PTPulse(bit)
                     THEN [emit |-> <<Toggle(last)>>, last |-> Toggle(last)]
                     ELSE [emit |-> <<NO_LINE>>, last |-> last]
    [] s = MAN  -> [emit |-> ManchesterPair(bit), last |-> last]
    [] s = DM   -> [emit |-> <<DMFirstHalf(bit, last), Toggle(DMFirstHalf(bit, last))>>,
                    last |-> Toggle(DMFirstHalf(bit, last))]

\* One iteration of the one-level-per-iteration decoders: the bit appended
\* and previous_level afterwards (only NRZ-I has one).
DecodeStep(s, level, prev) ==
  CASE s = NRZL -> [bit |-> NRZLBit(level), prev |-> prev]
    [] s = NRZI -> [bit |-> NRZIBit(level, prev), prev |-> level]
    [] s = AMI  -> [bit |-> AMIBit(level), prev |-> prev]
    [] s = PT   -> [bit |-> PTBit(level), prev |-> prev]

(* ============================ the state =============================== *)

VARIABLES
  pc,              \* "idle" | "loop" | "returned" | "raised"
  scheme,          \* the class of the codec the current/last call is on
  op,              \* "encode" | "decode" | "has_violations"
  arg,             \* the call's argument: data or signal
  src,             \* <<b>> when arg is what encode(b) returned, else <<>>
  i,               \* decode's range index / position of the for-loop
  result,          \* the local list result; the return value once returned
  verdict,         \* the boolean has_violations returned
  last_level,      \* local of the stateful encoders
  previous_level,  \* local of the NRZ-I and Differential Manchester decoders
  last_nonzero     \* local of has_violations

vars == <<pc, scheme, op, arg, src, i, result, verdict,
          last_level, previous_level, last_nonzero>>

\* The locals of a finished call are left as they are: nothing reads them
\* before the next call binds the ones it uses.  Before the first call they
\* are unbound.
Init ==
  /\ pc = "idle"
  /\ scheme = "none"
  /\ op = "none"
  /\ arg = <<>>
  /\ src = <<>>
  /\ i = 0
  /\ result = <<>>
  /\ verdict = FALSE
  /\ last_level = None
  /\ previous_level = None
  /\ last_nonzero = None

\* the encoders that start with last_level = LOW
StatefulEncoders == {NRZI, AMI, PT, DM}
\* the decoders that start with previous_level = LOW
StatefulDecoders == {NRZI, DM}

\* faulty variant of EntryLastLevel: last_level is not assigned at entry and
\* keeps the value the previous call left
EntryLastLevelKept(s, o, old) == old

\* the binding of last_level once the method's preamble has run
EntryLastLevel(s, o, old) ==
  IF o = "encode" /\ s \in StatefulEncoders THEN LOW ELSE old

\* the binding of previous_level once the method's preamble has run
EntryPreviousLevel(s, o, old) ==
  IF o = "decode" /\ s \in StatefulDecoders THEN LOW ELSE old

\* the binding of last_nonzero once the method's preamble has run
EntryLastNonzero(o, old) ==
  IF o = "has_violations" THEN None ELSE old

\* Entering method o of a codec of class s with argument a: the statements
\* before the loop.
Enter(s, o, a, from) ==
  /\ pc' = "loop"
  /\ scheme' = s
  /\ op' = o
  /\ arg' = a
  /\ src' = from
  /\ i' = 0
  /\ result' = <<>>
  /\ verdict' = FALSE
  /\ last_level' = EntryLastLevel(s, o, last_level)
  /\ previous_level' = EntryPreviousLevel(s, o, previous_level)
  /\ last_nonzero' = EntryLastNonzero(o, last_nonzero)

\* a caller encodes a bit list
CallEncode ==
  /\ pc = "idle"
  /\ \E s \in Schemes, data \in DataInputs : Enter(s, "encode", data, <<>>)

\* a caller decodes a level list of its own making
CallDecode ==
  /\ pc = "idle"
  /\ \E s \in Schemes, signal \in SignalInputs : Enter(s, "decode", signal, <<>>)

\* a caller checks a level list of its own making
CallHasViolations ==
  /\ pc = "idle"
  /\ \E s \in Bipolar, signal \in SignalInputs : Enter(s, "has_violations", signal, <<>>)

\* decode(encode(b)): the list encode returned is handed to the same class
DecodeEncoded ==
  /\ pc = "returned" /\ op = "encode"
  /\ Enter(scheme, "decode", result, <<arg>>)

\* has_violations(encode(b))
CheckEncoded ==
  /\ pc = "returned" /\ op = "encode" /\ scheme \in Bipolar
  /\ Enter(scheme, "has_violations", result, <<arg>>)

(* ========================= loop iterations ============================ *)

\* for bit in data: ... result.append / result.extend
EncodeIter ==
  /\ pc = "loop" /\ op = "encode" /\ i < Len(arg)
  /\ LET st == EncodeStep(scheme, arg[i + 1], last_level) IN
       /\ result' = result \o st.emit
       /\ last_level' = st.last
  /\ i' = i + 1
  /\ UNCHANGED <<pc, scheme, op, arg, src, verdict, previous_level, last_nonzero>>

\* for level in signal: ... result.append (NRZ-L, NRZ-I, AMI, Pseudoternary)
DecodeIter ==
  /\ pc = "loop" /\ op = "decode" /\ scheme \in OneLevelDecoders /\ i < Len(arg)
  /\ LET st == DecodeStep(scheme, arg[i + 1], previous_level) IN
       /\ result' = Append(result, st.bit)
       /\ previous_level' = st.prev
  /\ i' = i + 1
  /\ UNCHANGED <<pc, scheme, op, arg, src, verdict, last_level, last_nonzero>>

\* Manchester.decode: for i in range(0, len(signal), 2): pair = signal[i:i+2]
ManchesterDecodeIter ==
  /\ pc = "loop" /\ op = "decode" /\ scheme = MAN /\ i < Len(arg)
  /\ result' = Append(result, ManchesterBit(Slice(arg, i)))
  /\ i' = i + 2
  /\ UNCHANGED <<pc, scheme, op, arg, src, verdict, last_level, previous_level, last_nonzero>>

\* DifferentialManchester.decode: first_half = signal[i]; ...;
\* previous_level = signal[i+1].  The bit is appended before signal[i+1] is
\* read; when i+1 is past the end the read raises IndexError and the call
\* ends without a return value.
DMDecodeIter ==
  /\ pc = "loop" /\ op = "decode" /\ scheme = DM /\ i < Len(arg)
  /\ result' = Append(result, DMBit(arg[i + 1], previous_level))
  /\ IF i + 1 < Len(arg)
       THEN /\ previous_level' = arg[i + 2]
            /\ i' = i + 2
            /\ pc' = pc
       ELSE /\ pc' = "raised"
            /\ UNCHANGED <<previous_level, i>>
  /\ UNCHANGED <<scheme, op, arg, src, verdict, last_level, last_nonzero>>

\* has_violations: one level of the scan; `return True` ends the call
HasViolationsIter ==
  /\ pc = "loop" /\ op = "has_violations" /\ i < Len(arg)
  /\ LET level == arg[i + 1] IN
       IF ~ScanIsPulse(scheme, level)
         THEN /\ i' = i + 1
              /\ UNCHANGED <<pc, verdict, last_nonzero>>
         ELSE IF ScanSameAsLast(scheme, level, last_nonzero)
           THEN /\ pc' = "returned"
                /\ verdict' = TRUE
                /\ UNCHANGED <<i, last_nonzero>>
           ELSE /\ last_nonzero' = level
                /\ i' = i + 1
                /\ UNCHANGED <<pc, verdict>>
  /\ UNCHANGED <<scheme, op, arg, src, result, last_level, previous_level>>

\* the loop is exhausted: return result / return False
Return ==
  /\ pc = "loop" /\ i >= Len(arg)
  /\ pc' = "returned"
  /\ verdict' = FALSE
  /\ UNCHANGED <<scheme, op, arg, src, i, result, last_level, previous_level, last_nonzero>>

\* The caller has taken the outcome of the call (the returned value or the
\* exception); the codec is free for the next call.  The locals of the
\* finished call stay as they are.
Finish ==
  /\ pc \in {"returned", "raised"}
  /\ pc' = "idle"
  /\ scheme' = "none"
  /\ op' = "none"
  /\ arg' = <<>>
  /\ src' = <<>>
  /\ i' = 0
  /\ result' = <<>>
  /\ verdict' = FALSE
  /\ UNCHANGED <<last_level, previous_level, last_nonzero>>

Next ==
  \/ CallEncode
  \/ CallDecode
  \/ CallHasViolations
  \/ DecodeEncoded
  \/ CheckEncoded
  \/ EncodeIter
  \/ DecodeIter
  \/ ManchesterDecodeIter
  \/ DMDecodeIter
  \/ HasViolationsIter
  \/ Return
  \/ Finish

Spec == Init /\ [][Next]_vars

TypeOK ==
  /\ pc \in {"idle", "loop", "returned", "raised"}
  /\ scheme \in Schemes \cup {"none"}
  /\ op \in {"none", "encode", "decode", "has_violations"}
  /\ verdict \in BOOLEAN
  /\ i \in Nat
  /\ Len(src) <= 1

(* ================== a call made on a fresh codec ====================== *)
(* What each method returns when it is the first call ever made: the same *)
(* per-iteration rules folded over the argument, starting from the values *)
(* the method's preamble assigns.                                         *)

RECURSIVE EncodeFrom(_, _, _)
EncodeFrom(s, data, last) ==
  IF data = <<>> THEN <<>>
  ELSE LET st == EncodeStep(s, Head(data), last) IN
         st.emit \o EncodeFrom(s, Tail(data), st.last)

\* encode(data) of class s
EncodeResult(s, data) == EncodeFrom(s, data, LOW)

RECURSIVE DecodeFrom(_, _, _)
DecodeFrom(s, signal, prev) ==
  IF signal = <<>> THEN <<>>
  ELSE LET st == DecodeStep(s, Head(signal), prev) IN
         <<st.bit>> \o DecodeFrom(s, Tail(signal), st.prev)

RECURSIVE ManchesterDecodeFrom(_, _)
ManchesterDecodeFrom(signal, k) ==
  IF k >= Len(signal) THEN <<>>
  ELSE <<ManchesterBit(Slice(signal, k))>> \o ManchesterDecodeFrom(signal, k + 2)

\* DifferentialManchester.decode from index k: raised is TRUE when
\* signal[k+1] is read past the end
RECURSIVE DMDecodeFrom(_, _, _)
DMDecodeFrom(signal, k, prev) ==
  IF k >= Len(signal) THEN [raised |-> FALSE, bits |-> <<>>]
  ELSE IF k + 1 >= Len(signal) THEN [raised |-> TRUE, bits |-> <<>>]
  ELSE LET rest == DMDecodeFrom(signal, k + 2, signal[k + 2]) IN
         [raised |-> rest.raised,
          bits |-> IF rest.raised THEN <<>>
                   ELSE <<DMBit(signal[k + 1], prev)>> \o rest.bits]

\* decode(signal) of class s: whether it raises, and the bits it returns
DecodeOutcome(s, signal) ==
  CASE s \in OneLevelDecoders -> [raised |-> FALSE, bits |-> DecodeFrom(s, signal, LOW)]
    [] s = MAN -> [raised |-> FALSE, bits |-> ManchesterDecodeFrom(signal, 0)]
    [] s = DM -> DMDecodeFrom(signal, 0, LOW)

RECURSIVE HasViolationsFrom(_, _, _)
HasViolationsFrom(s, signal, last) ==
  IF signal = <<>> THEN FALSE
  ELSE IF ~ScanIsPulse(s, Head(signal)) THEN HasViolationsFrom(s, Tail(signal), last)
  ELSE IF ScanSameAsLast(s, Head(signal), last) THEN TRUE
  ELSE HasViolationsFrom(s, Tail(signal), Head(signal))

\* has_violations(signal) of class s
HasViolationsResult(s, signal) == HasViolationsFrom(s, signal, None)

(* ============================ properties ============================== *)

\* a call of method o has returned
Returned(o) == pc = "returned" /\ op = o

\* the argument of the call is what encode returned for a list of bits 0/1
FromBits == src # <<>> /\ IsBitSeq(src[1])

\* two non-zero pulses of equal polarity with nothing but NO_LINE between
SamePolarityPair(s) ==
  \E a, b \in 1..Len(s) :
    /\ a < b
    /\ s[a] # NO_LINE /\ s[b] # NO_LINE
    /\ \A k \in (a + 1)..(b - 1) : s[k] = NO_LINE
    /\ s[a] = s[b]

\* C1: decoding what encode returned for a sequence of bits 0/1 gives that
\* sequence back, for each of the six schemes.
RoundTrip ==
  (Returned("decode") /\ FromBits) => result = src[1]

RoundTripWitness ==
  /\ Returned("decode") /\ scheme = DM
  /\ src = << <<0, 1, 1, 0>> >>
  /\ result = <<0, 1, 1, 0>>

\* C2: what BipolarAMI.encode and Pseudoternary.encode return for bits 0/1
\* never holds two consecutive pulses (NO_LINE ignored) of one polarity,
\* and has_violations of it returns False.
PolarityAlternation ==
  /\ (Returned("encode") /\ scheme \in Bipolar /\ IsBitSeq(arg))
       => ~SamePolarityPair(result)
  /\ (Returned("has_violations") /\ FromBits) => verdict = FALSE

PolarityAlternationWitness ==
  /\ Returned("has_violations") /\ scheme = AMI
  /\ src = << <<1, 0, 1, 1>> >>
  /\ arg = <<HIGH, NO_LINE, LOW, HIGH>>
  /\ verdict = FALSE

\* C3: on a sequence of levels HIGH/LOW/NO_LINE has_violations returns True
\* exactly when two pulses of equal polarity are separated by NO_LINE only;
\* [HIGH, NO_LINE, HIGH] gives True and [HIGH, LOW, HIGH] gives False.
ViolationDetector ==
  (Returned("has_violations") /\ IsLevelSeq(arg)) =>
    /\ verdict = SamePolarityPair(arg)
    /\ arg = <<HIGH, NO_LINE, HIGH>> => verdict = TRUE
    /\ arg = <<HIGH, LOW, HIGH>> => verdict = FALSE

ViolationDetectorWitness ==
  /\ Returned("has_violations") /\ scheme = PT
  /\ arg = <<HIGH, NO_LINE, HIGH>>
  /\ verdict = TRUE

\* C4: no encode, decode or has_violations call on a well-typed argument
\* (bits 0/1, levels HIGH/LOW/NO_LINE, any length) ends by raising.
NoOperationFails ==
  pc = "raised" => ~(IF op = "encode" THEN IsBitSeq(arg) ELSE IsLevelSeq(arg))

\* C5: Manchester.decode and DifferentialManchester.decode, given an odd
\* number of levels, emit no bit for the incomplete pair: a call that
\* returns (rather than reporting a failure) returns what decode returns
\* for the sequence without its last element, floor(n/2) bits.
OddLengthDropped ==
  (Returned("decode") /\ scheme \in TwoInterval /\ IsLevelSeq(arg) /\ Len(arg) % 2 = 1)
    => /\ Len(result) = Len(arg) \div 2
       /\ result = DecodeOutcome(scheme, SubSeq(arg, 1, Len(arg) - 1)).bits

\* C6: encode returns one level per bit for NRZ-L, NRZ-I, Bipolar-AMI and
\* Pseudoternary and two levels per bit for Manchester and Differential
\* Manchester; the empty sequence encodes to the empty sequence.
LengthLaw ==
  (Returned("encode") /\ IsBitSeq(arg)) =>
    Len(result) = IF scheme \in TwoInterval THEN 2 * Len(arg) ELSE Len(arg)

LengthLawWitness ==
  /\ Returned("encode") /\ scheme = MAN
  /\ arg = <<1, 0, 1>>
  /\ Len(result) = 6

\* C7: whatever the argument, every level encode returns is HIGH, LOW or
\* NO_LINE and every bit decode returns is 0 or 1.
AlphabetClosure ==
  /\ op = "encode" => \A k \in 1..Len(result) : result[k] \in Levels
  /\ op = "decode" => \A k \in 1..Len(result) : result[k] \in Bits

AlphabetClosureWitness ==
  /\ Returned("decode") /\ scheme = AMI
  /\ arg = <<LOW, 2>>
  /\ result = <<1, 1>>

\* C8: the outcome of a call depends on its argument alone: after any
\* history of earlier calls, encode, decode and has_violations end as they
\* do on a fresh codec.
NoStateAcrossCalls ==
  /\ Returned("encode") => result = EncodeResult(scheme, arg)
  /\ (op = "decode" /\ pc \in {"returned", "raised"}) =>
       LET fresh == DecodeOutcome(scheme, arg) IN
         /\ (pc = "raised") = fresh.raised
         /\ pc = "returned" => result = fresh.bits
  /\ Returned("has_violations") => verdict = HasViolationsResult(scheme, arg)

\* an NRZ-I encode returns after earlier calls have left HIGH in the locals
\* of the decoders and of has_violations
NoStateAcrossCallsWitness ==
  /\ Returned("encode") /\ scheme = NRZI
  /\ arg = <<1, 1, 0>>
  /\ result = <<HIGH, LOW, LOW>>
  /\ previous_level = HIGH
  /\ last_nonzero = HIGH

\* the bits with every value that is not 1 replaced by 0
NotOneAsZero(data) == [k \in 1..Len(data) |-> IF data[k] = 1 THEN 1 ELSE 0]
\* the bits with every value that is not 0 replaced by 1
NotZeroAsOne(data) == [k \in 1..Len(data) |-> IF data[k] = 0 THEN 0 ELSE 1]

\* the classes whose encode tests bit == 1 / bit == 0
TestsForOne == {NRZL, NRZI, AMI, MAN}
TestsForZero == {PT, DM}

\* C9 as stated: for every scheme, encode takes any values without error
\* and encodes a value that is not 1 as it encodes bit 0 at that position.
NotOneEncodedAsZero ==
  /\ op = "encode" => pc # "raised"
  /\ Returned("encode") => result = EncodeResult(scheme, NotOneAsZero(arg))

\* C9 amended: encode takes any values without error; NRZ-L, NRZ-I,
\* Bipolar-AMI and Manchester encode a value that is not 1 as bit 0,
\* Pseudoternary and Differential Manchester encode a value that is not 0
\* as bit 1.
DefaultBranch ==
  /\ op = "encode" => pc # "raised"
  /\ (Returned("encode") /\ scheme \in TestsForOne)
       => result = EncodeResult(scheme, NotOneAsZero(arg))
  /\ (Returned("encode") /\ scheme \in TestsForZero)
       => result = EncodeResult(scheme, NotZeroAsOne(arg))

DefaultBranchWitness ==
  /\ Returned("encode") /\ scheme = PT
  /\ arg = <<2, 0>>
  /\ result = <<NO_LINE, HIGH>>

\* C10: in what NonReturnToZeroInverted.encode returns for bits 0/1, level k
\* differs from the level before it (LOW before the first) exactly when bit
\* k is 1; encode([0,1,1,0,1]) is [LOW, HIGH, LOW, LOW, HIGH].
NRZITransitionRule ==
  (Returned("encode") /\ scheme = NRZI /\ IsBitSeq(arg)) =>
    /\ Len(result) = Len(arg)
    /\ \A k \in 1..Len(arg) :
         (result[k] # (IF k = 1 THEN LOW ELSE result[k - 1])) <=> (arg[k] = 1)
    /\ arg = <<0, 1, 1, 0, 1>> => result = <<LOW, HIGH, LOW, LOW, HIGH>>

NRZITransitionRuleWitness ==
  /\ Returned("encode") /\ scheme = NRZI
  /\ arg = <<0, 1, 1, 0, 1>>
  /\ result = <<LOW, HIGH, LOW, LOW, HIGH>>

\* C11: in what DifferentialManchester.encode returns for bits 0/1, the two
\* halves of every bit differ (one transition at mid-bit), and the first
\* half of bit k differs from the half-level before it (LOW before the
\* first bit) exactly when bit k is 0.
DMTransitions ==
  (Returned("encode") /\ scheme = DM /\ IsBitSeq(arg)) =>
    /\ Len(result) = 2 * Len(arg)
    /\ \A k \in 1..Len(arg) :
         /\ result[2 * k - 1] # result[2 * k]
         /\ (result[2 * k - 1] # (IF k = 1 THEN LOW ELSE result[2 * k - 2]))
              <=> (arg[k] = 0)

DMTransitionsWitness ==
  /\ Returned("encode") /\ scheme = DM
  /\ arg = <<0, 1, 1, 0>>
  /\ result = <<HIGH, LOW, LOW, HIGH, HIGH, LOW, HIGH, LOW>>

\* every bit flipped
Complement(bits) == [k \in 1..Len(bits) |-> 1 - bits[k]]

\* the other class of the bipolar pair
Mirror(s) == IF s = PT THEN AMI ELSE PT

\* C12: Pseudoternary mirrors Bipolar-AMI: for bits 0/1 the encode of one
\* class returns what the encode of the other returns for the complemented
\* bits; on every level sequence the decode of one returns the complement
\* of what the decode of the other returns, and the two has_violations
\* return the same boolean.
MirrorImage ==
  /\ (Returned("encode") /\ scheme \in Bipolar /\ IsBitSeq(arg))
       => result = EncodeResult(Mirror(scheme), Complement(arg))
  /\ (Returned("decode") /\ scheme \in Bipolar)
       => /\ ~DecodeOutcome(Mirror(scheme), arg).raised
          /\ result = Complement(DecodeOutcome(Mirror(scheme), arg).bits)
  /\ (Returned("has_violations") /\ scheme \in Bipolar)
       => verdict = HasViolationsResult(Mirror(scheme), arg)

\* Pseudoternary.decode has returned the complement of AMI's bits for a
\* signal with pulses of both polarities and an idle interval
MirrorImageWitness ==
  /\ Returned("decode") /\ scheme = PT
  /\ arg = <<HIGH, NO_LINE, LOW>>
  /\ result = <<0, 1, 0>>
  /\ DecodeOutcome(AMI, arg).bits = <<1, 0, 1>>

====
